---- MODULE Spec2Model ----
(***************************************************************************)
(* A model of the two line-numbering scripts of the repository:            *)
(*   src/Austin_cs_tagless/numbering_script.py  (clean_text, process_files)*)
(*   src/Chris_Arias_cs_tagless/tori_2_chris.py (add_offset_to_numbers,    *)
(*                                               main)                     *)
(* Texts are sequences of one-character strings; every regular expression  *)
(* of the scripts is an operator that, given a text and a position,        *)
(* returns the position after the match (0: no match at that position).    *)
(***************************************************************************)
EXTENDS Integers, Sequences, FiniteSets, TLC

VARIABLES
    arg,        \* clean_text: the argument of the first call
    text,       \* clean_text: the local variable text
    cpc,        \* clean_text: the statement reached
    pass,       \* clean_text: 1 in clean_text(x), 2 in clean_text(clean_text(x))
    first,      \* clean_text: what the first call returned
    uncut,      \* clean_text: text as it was before the marker loop of lines 42-45
    disk,       \* tori_2_chris: the files of BASE_DIR, file name -> text as read
    disk0,      \* tori_2_chris: the files as they were when main started
    todo,       \* tori_2_chris: sorted(files) not yet visited by the loop of main
    opc,        \* tori_2_chris: the statement of main reached
    input_files,    \* process_files: the contents of the files of input_files, in order
    files,      \* process_files: the files the loop of line 60 has not reached yet
    content,    \* process_files: content of the file being processed (line 69)
    all_entries,    \* process_files: the (number, text) pairs, in the order appended
    lines,      \* process_files: content_cleaned.split('\n')
    i,          \* process_files: the index into lines, from 1 (Python's i + 1)
    line_num,   \* process_files: the number of the entry being gathered
    text_parts, \* process_files: the parts of the entry being gathered
    unique_entries, \* process_files: the sorted, deduplicated entries
    output_lines,   \* process_files: the formatted lines
    output,     \* process_files: what was written to output_file
    ppc         \* process_files: the statement reached

cleanVars == <<arg, text, cpc, pass, first, uncut>>
offsetVars == <<disk, disk0, todo, opc>>
procVars == <<input_files, files, content, all_entries, lines, i, line_num, text_parts,
              unique_entries, output_lines, output, ppc>>
vars == <<cleanVars, offsetVars, procVars>>

\* The script that is not running: its variables hold nothing.
CleanIdle ==
    /\ arg = <<>> /\ text = <<>> /\ cpc = "idle" /\ pass = 0
    /\ first = <<>> /\ uncut = <<>>
OffsetIdle ==
    /\ disk = <<>> /\ disk0 = <<>> /\ todo = <<>> /\ opc = "idle"
ProcIdle ==
    /\ input_files = <<>> /\ files = <<>> /\ content = <<>>
    /\ all_entries = <<>> /\ lines = <<>>
    /\ i = 0 /\ line_num = 0 /\ text_parts = <<>> /\ unique_entries = <<>>
    /\ output_lines = <<>> /\ output = <<>> /\ ppc = "idle"

----------------------------------------------------------------------------
(* Characters and character classes *)

Digits == {"0","1","2","3","4","5","6","7","8","9"}
Upper == {"A","B","C","D","E","F","G","H","I","J","K","L","M",
          "N","O","P","Q","R","S","T","U","V","W","X","Y","Z"}
Lower == {"a","b","c","d","e","f","g","h","i","j","k","l","m",
          "n","o","p","q","r","s","t","u","v","w","x","y","z"}
\* \s : the whitespace characters the model's texts use
Space == {" ", "\t", "\n", "\r"}
\* [A-Za-z\s]
RoleChars == Upper \cup Lower \cup Space
NL == "\n"

\* The least element of a non-empty set of positions.
Least(S) == CHOOSE x \in S : \A y \in S : x <= y

Greatest(S) == CHOOSE x \in S : \A y \in S : x >= y

\* The position after the longest run of characters of S that starts at p.
RECURSIVE RunEnd(_, _, _)
RunEnd(t, p, S) ==
    IF p <= Len(t) /\ t[p] \in S THEN RunEnd(t, p + 1, S) ELSE p

\* The literal lit stands at position p of t.
HasAt(t, p, lit) ==
    /\ p >= 1
    /\ p + Len(lit) - 1 <= Len(t)
    /\ \A k \in 1..Len(lit) : t[p + k - 1] = lit[k]

\* t[a .. b-1]
Slice(t, a, b) == SubSeq(t, a, b - 1)

\* str.find: the first position where lit stands, 0 when there is none.
Find(t, lit) ==
    LET found == {p \in 1..Len(t) : HasAt(t, p, lit)}
    IN  IF found = {} THEN 0 ELSE Least(found)

\* re.sub(pattern, repl, t) for a pattern that matches no empty string:
\* ends[p] is the position after the match that starts at p, or 0.
\* From p on: the text up to the leftmost match is kept, the match is
\* replaced, and the search goes on after the match.
RECURSIVE ReSubFrom(_, _, _, _)
ReSubFrom(t, p, ends, repl) ==
    LET starts == {q \in p..Len(t) : ends[q] > q}
    IN  IF starts = {} THEN SubSeq(t, p, Len(t))
        ELSE LET q == Least(starts)
             IN  SubSeq(t, p, q - 1) \o repl \o ReSubFrom(t, ends[q], ends, repl)

ReSub(t, ends, repl) == ReSubFrom(t, 1, ends, repl)

\* str.strip()
RECURSIVE RStripEnd(_, _)
RStripEnd(t, e) == IF e >= 1 /\ t[e] \in Space THEN RStripEnd(t, e - 1) ELSE e

strip(t) ==
    LET a == RunEnd(t, 1, Space)
        e == RStripEnd(t, Len(t))
    IN  IF a > e THEN <<>> ELSE SubSeq(t, a, e)

\* int(digits)
DigitVal(c) ==
    CASE c = "0" -> 0 [] c = "1" -> 1 [] c = "2" -> 2 [] c = "3" -> 3
      [] c = "4" -> 4 [] c = "5" -> 5 [] c = "6" -> 6 [] c = "7" -> 7
      [] c = "8" -> 8 [] c = "9" -> 9

RECURSIVE int(_)
int(ds) ==
    IF ds = <<>> THEN 0
    ELSE 10 * int(SubSeq(ds, 1, Len(ds) - 1)) + DigitVal(ds[Len(ds)])

\* str(n), n >= 0
DigitChar(d) ==
    CASE d = 0 -> "0" [] d = 1 -> "1" [] d = 2 -> "2" [] d = 3 -> "3"
      [] d = 4 -> "4" [] d = 5 -> "5" [] d = 6 -> "6" [] d = 7 -> "7"
      [] d = 8 -> "8" [] d = 9 -> "9"

RECURSIVE str(_)
str(n) ==
    IF n < 10 THEN <<DigitChar(n)>>
    ELSE str(n \div 10) \o <<DigitChar(n % 10)>>

----------------------------------------------------------------------------
(* clean_text *)

LitCharacter == <<"C","h","a","r","a","c","t","e","r">>

\* r'Character\s*\d+:\s*'
MatchCharacterLabel(t, p) ==
    IF ~HasAt(t, p, LitCharacter) THEN 0
    ELSE LET a == RunEnd(t, p + Len(LitCharacter), Space)
             b == RunEnd(t, a, Digits)
         IN  IF b > a /\ b <= Len(t) /\ t[b] = ":"
             THEN RunEnd(t, b + 1, Space)
             ELSE 0

\* r'[A-Z][A-Za-z\s]+:' : the position after the colon
MatchRoleName(t, p) ==
    IF p > Len(t) \/ t[p] \notin Upper THEN 0
    ELSE LET a == RunEnd(t, p + 1, RoleChars)
         IN  IF a > p + 1 /\ a <= Len(t) /\ t[a] = ":" THEN a + 1 ELSE 0

\* r'[A-Z][A-Za-z\s]+:\s*[A-Z]?\d+:\s*'
MatchRoleCode(t, p) ==
    LET r == MatchRoleName(t, p)
    IN  IF r = 0 THEN 0
        ELSE LET b == RunEnd(t, r, Space)
                 c == IF b <= Len(t) /\ t[b] \in Upper THEN b + 1 ELSE b
                 d == RunEnd(t, c, Digits)
             IN  IF d > c /\ d <= Len(t) /\ t[d] = ":"
                 THEN RunEnd(t, d + 1, Space)
                 ELSE 0

\* A cleaner without the rule of line 31: no role prefix is found.
NoRolePrefix(t, p) == 0

\* r'^[A-Z][A-Za-z\s]+:\s*' (no MULTILINE: ^ is the start of the text)
MatchRolePrefix(t, p) ==
    IF p # 1 THEN 0
    ELSE LET r == MatchRoleName(t, p)
         IN  IF r = 0 THEN 0 ELSE RunEnd(t, r, Space)

\* lines 26-31
RemoveLabels(t) ==
    LET a == ReSub(t, [p \in 1..Len(t) |-> MatchCharacterLabel(t, p)], <<>>)
        b == ReSub(a, [p \in 1..Len(a) |-> MatchRoleCode(a, p)], <<>>)
    IN  ReSub(b, [p \in 1..Len(b) |-> MatchRolePrefix(b, p)], <<>>)

\* lines 34-41, in the order of the list
markers ==
    << <<"I","T","E","M","S"," ">>,
       <<"I","T","E","M"," ">>,
       <<"Y","o","u"," ","a","r","e"," ","B",";">>,
       <<"Y","o","u"," ","a","r","e"," ","A",";">>,
       <<"Y","o","u"," ","a","r","e"," ","C","h","a","r","a","c","t","e","r">>,
       <<"Y","o","u"," ","a","r","e"," ","p","l","a","y","i","n","g"," ","a"," ",
         "c","u","s","t","o","m","e","r"," ","s","e","r","v","i","c","e"," ",
         "a","g","e","n","t">> >>

\* lines 42-45: for marker in markers: idx = text.find(marker); cut when found
RECURSIVE TruncateFrom(_, _)
TruncateFrom(t, k) ==
    IF k > Len(markers) THEN t
    ELSE LET idx == Find(t, markers[k])
         IN  TruncateFrom(IF idx # 0 THEN SubSeq(t, 1, idx - 1) ELSE t, k + 1)

\* A loop that ends at the first marker of the list that is found.
TruncateAtFirstFound(t) ==
    LET found == {k \in 1..Len(markers) : Find(t, markers[k]) # 0}
    IN  IF found = {} THEN t
        ELSE SubSeq(t, 1, Find(t, markers[Least(found)]) - 1)

TruncateAtMarkers(t) == TruncateFrom(t, 1)

\* r'\s*={5,}\s*' and r'\s*-{5,}\s*'
MatchBorderOf(t, p, ch) ==
    LET a == RunEnd(t, p, Space)
        b == RunEnd(t, a, {ch})
    IN  IF b - a >= 5 THEN RunEnd(t, b, Space) ELSE 0

MatchEqualsRun(t, p) == MatchBorderOf(t, p, "=")
MatchDashRun(t, p) == MatchBorderOf(t, p, "-")

\* lines 48-49
CollapseBorders(t) ==
    LET a == ReSub(t, [p \in 1..Len(t) |-> MatchEqualsRun(t, p)], <<" ">>)
    IN  ReSub(a, [p \in 1..Len(a) |-> MatchDashRun(a, p)], <<" ">>)

\* r'\s+'
MatchSpaces(t, p) ==
    LET a == RunEnd(t, p, Space) IN IF a > p THEN a ELSE 0

\* lines 52-54
CollapseSpaces(t) ==
    strip(ReSub(t, [p \in 1..Len(t) |-> MatchSpaces(t, p)], <<" ">>))

clean_text(t) ==
    CollapseSpaces(CollapseBorders(TruncateAtMarkers(RemoveLabels(t))))

----------------------------------------------------------------------------
(* clean_text as a step machine, called on x and then on clean_text(x) *)

MaxFrags == 3

\* The pieces the argument texts are put together from.
CleanFrags ==
    { <<"N","a","r","r","a","t","o","r",":"," ">>,
      <<"B","o","b",":"," ","D","2",":"," ">>,
      <<"C","h","a","r","a","c","t","e","r"," ","1",":"," ">>,
      <<"G","o"," ","n","o","w","."," ">>,
      <<"[","s","a","d","]">>,
      <<"[","t","o"," ","C","h","a","r","a","c","t","e","r"," ","2",":"," ","x","]">>,
      <<"Y","o","u"," ","a","r","e"," ","A",";"," ">>,
      <<"Y","o","u"," ","a","r","e"," ","B",";">>,
      <<"I","T","E","M"," ">>,
      <<"I","T","E","M","S"," ">>,
      <<"=","=","=","=","=">>,
      <<" ">>,
      <<"c","o","n","t","i","n","u","e"," ","t","h","e"," ","s","c","e","n","e",".">> }

RECURSIVE TextsOf(_, _)
TextsOf(frags, n) ==
    IF n = 0 THEN {<<>>}
    ELSE LET prev == TextsOf(frags, n - 1)
         IN  prev \cup {t \o f : t \in prev, f \in frags}

CleanInputs == TextsOf(CleanFrags, MaxFrags)

InitClean ==
    /\ arg \in CleanInputs
    /\ text = arg
    /\ cpc = "labels"
    /\ pass = 1
    /\ first = <<>>
    /\ uncut = <<>>
    /\ OffsetIdle
    /\ ProcIdle

\* lines 26-31
CleanLabels ==
    /\ cpc = "labels"
    /\ text' = RemoveLabels(text)
    /\ cpc' = "markers"
    /\ UNCHANGED <<arg, pass, first, uncut>>
    /\ UNCHANGED <<offsetVars, procVars>>

\* lines 33-45
CleanTruncate ==
    /\ cpc = "markers"
    /\ uncut' = text
    /\ text' = TruncateAtMarkers(text)
    /\ cpc' = "borders"
    /\ UNCHANGED <<arg, pass, first>>
    /\ UNCHANGED <<offsetVars, procVars>>

\* lines 47-49
CleanBorders ==
    /\ cpc = "borders"
    /\ text' = CollapseBorders(text)
    /\ cpc' = "spaces"
    /\ UNCHANGED <<arg, pass, first, uncut>>
    /\ UNCHANGED <<offsetVars, procVars>>

\* lines 51-54
CleanSpaces ==
    /\ cpc = "spaces"
    /\ text' = CollapseSpaces(text)
    /\ cpc' = "return"
    /\ UNCHANGED <<arg, pass, first, uncut>>
    /\ UNCHANGED <<offsetVars, procVars>>

\* clean_text(clean_text(x)): the returned text is the argument of a second call
CleanAgain ==
    /\ cpc = "return"
    /\ pass = 1
    /\ first' = text
    /\ pass' = 2
    /\ cpc' = "labels"
    /\ UNCHANGED <<arg, text, uncut>>
    /\ UNCHANGED <<offsetVars, procVars>>

NextClean ==
    \/ CleanLabels
    \/ CleanTruncate
    \/ CleanBorders
    \/ CleanSpaces
    \/ CleanAgain

SpecClean == InitClean /\ [][NextClean]_vars

----------------------------------------------------------------------------
(* Claims about clean_text *)

Occurs(t, lit) == Find(t, lit) # 0

\* The least position of t at which one of the markers stands, 0 when none does.
EarliestMarker(t) ==
    LET ps == {p \in 1..Len(t) : \E k \in 1..Len(markers) : HasAt(t, p, markers[k])}
    IN  IF ps = {} THEN 0 ELSE CHOOSE p \in ps : \A q \in ps : p <= q

Example3 == <<"G","o"," ","n","o","w","."," ","Y","o","u"," ","a","r","e"," ","A",";"," ","c","o","n","t","i","n","u","e"," ","t","h","e"," ","s","c","e","n","e",".">>
GoNow == <<"G","o"," ","n","o","w",".">>

\* C6: the marker loop cuts the text at the earliest position at which any
\* marker stands, whatever the order of the list: what lies before that
\* position is kept, the rest is dropped; and the text of Example 3 cleans
\* to "Go now.".
C6_CutAtEarliestMarker ==
    /\ cpc = "borders" =>
          text = IF EarliestMarker(uncut) = 0 THEN uncut
                 ELSE SubSeq(uncut, 1, EarliestMarker(uncut) - 1)
    /\ (cpc = "return" /\ pass = 1 /\ arg = Example3) => text = GoNow

\* C6 witness: two different markers stand in the text, the one tried later
\* in the list stands first, and the loop has cut the text there.
C6_Witness ==
    /\ cpc = "borders"
    /\ Find(uncut, markers[2]) # 0
    /\ Find(uncut, markers[4]) # 0
    /\ Find(uncut, markers[4]) < Find(uncut, markers[2])
    /\ Len(text) = Find(uncut, markers[4]) - 1
    /\ Len(text) > 0

\* C4: clean_text is idempotent: the second call returns what the first did.
C4_Idempotent == (cpc = "return" /\ pass = 2) => text = first

\* Bracketed direction tags of the argument texts.
DirectionTags ==
    { <<"[","s","a","d","]">>,
      <<"[","t","o"," ","C","h","a","r","a","c","t","e","r"," ","2",":"," ","x","]">> }

\* tag stands in t wholly before the first marker of t
TagBeforeMarkers(t, tag) ==
    /\ Occurs(t, tag)
    /\ EarliestMarker(t) # 0 => Find(t, tag) + Len(tag) <= EarliestMarker(t)

\* C8: every direction tag of the argument that lies before the first marker
\* stands character for character in the cleaned text.
C8_TagsVerbatim ==
    (cpc = "return" /\ pass = 1) =>
        \A tag \in DirectionTags : TagBeforeMarkers(arg, tag) => Occurs(text, tag)

----------------------------------------------------------------------------
(* tori_2_chris.py: main and add_offset_to_numbers *)

OFFSET == 612
START_FILE == 8

\* r'^(\d+)(\s)' with re.MULTILINE: ^ is the start of the text or the
\* position after a newline; \s is one whitespace character, a newline included
MatchLineNumber(t, p) ==
    IF ~(p = 1 \/ (p > 1 /\ p <= Len(t) + 1 /\ t[p - 1] = NL)) THEN 0
    ELSE LET d == RunEnd(t, p, Digits)
         IN  IF d > p /\ d <= Len(t) /\ t[d] \in Space THEN d + 1 ELSE 0

\* A replacement that drops the whitespace character of group 2.
add_offset_number_only(t, p, e) == str(int(Slice(t, p, e - 1)) + OFFSET)

\* add_offset(match): str(int(group 1) + OFFSET) + group 2
add_offset(t, p, e) == str(int(Slice(t, p, e - 1)) + OFFSET) \o <<t[e - 1]>>

\* re.sub(r'^(\d+)(\s)', add_offset, content, flags=re.MULTILINE)
RECURSIVE RenumberFrom(_, _)
RenumberFrom(t, p) ==
    LET starts == {q \in p..Len(t) : MatchLineNumber(t, q) > q}
    IN  IF starts = {} THEN SubSeq(t, p, Len(t))
        ELSE LET q == Least(starts)
                 e == MatchLineNumber(t, q)
             IN  SubSeq(t, p, q - 1) \o add_offset(t, q, e) \o RenumberFrom(t, e)

\* lines 11-22: what add_offset_to_numbers writes back for the content c it read
add_offset_to_numbers(c) == RenumberFrom(c, 1)

LitActor == <<"a","c","t","o","r","_","a","s","s","i","g","n","m","e","n","t","s">>
LitTxt == <<".","t","x","t">>

\* os.path.join(BASE_DIR, "actor_assignments*.txt"): the name for what * stands for
PathOf(stem) == LitActor \o stem \o LitTxt

\* re.search(r'actor_assignments(\d+)\.txt', filepath): group 1 of the leftmost
\* match, <<>> when there is none
SearchFileNum(path, p) ==
    LET found == {q \in p..Len(path) :
                     /\ HasAt(path, q, LitActor)
                     /\ LET a == q + Len(LitActor)
                            d == RunEnd(path, a, Digits)
                        IN  d > a /\ HasAt(path, d, LitTxt)}
    IN  IF found = {} THEN <<>>
        ELSE LET a == Least(found) + Len(LitActor)
             IN  Slice(path, a, RunEnd(path, a, Digits))

\* lines 32-35: the file is one main renumbers
Selected(path) ==
    LET g == SearchFileNum(path, 1)
    IN  g # <<>> /\ int(g) >= START_FILE

\* The characters of the file names, by code point.
CodeOrder ==
    <<".","0","1","2","3","4","5","6","7","8","9","_",
      "a","b","c","d","e","f","g","h","i","j","k","l","m",
      "n","o","p","q","r","s","t","u","v","w","x","y","z">>

Ord(c) == CHOOSE k \in 1..Len(CodeOrder) : CodeOrder[k] = c

\* a < b for Python strings
RECURSIVE StrLess(_, _)
StrLess(a, b) ==
    IF b = <<>> THEN FALSE
    ELSE IF a = <<>> THEN TRUE
    ELSE IF Head(a) # Head(b) THEN Ord(Head(a)) < Ord(Head(b))
    ELSE StrLess(Tail(a), Tail(b))

\* sorted(files)
RECURSIVE sorted(_)
sorted(S) ==
    IF S = {} THEN <<>>
    ELSE LET m == CHOOSE x \in S : \A y \in S \ {x} : StrLess(x, y)
         IN  <<m>> \o sorted(S \ {m})

MaxOffsetLines == 2

\* What * stands for in the names of the files of BASE_DIR.
Stems == { <<"7">>, <<"8">>, <<"1","0">>, <<"8","a">> }

\* The pieces the file contents are put together from.
OffsetFrags ==
    { <<"5"," ","H","e","l","l","o"," ","w","o","r","l","d","\n">>,
      <<"5","\n">>,
      <<"0","1","2","\t","x","\n">>,
      <<"a","b"," ","5"," ","\n">>,
      <<"5">> }

OffsetContents == TextsOf(OffsetFrags, MaxOffsetLines)

InitOffset ==
    /\ \E s1 \in Stems :
          \E s2 \in Stems \ {s1} :
             disk \in [{PathOf(s1), PathOf(s2)} -> OffsetContents]
    /\ disk0 = disk
    /\ todo = <<>>
    /\ opc = "glob"
    /\ CleanIdle
    /\ ProcIdle

\* lines 27-28 and sorted(files) of line 30
MainGlob ==
    /\ opc = "glob"
    /\ todo' = sorted(DOMAIN disk)
    /\ opc' = "loop"
    /\ UNCHANGED <<disk, disk0>>
    /\ UNCHANGED <<cleanVars, procVars>>

\* lines 30-36, one file for which line 36 is reached: add_offset_to_numbers
MainRenumber ==
    /\ opc = "loop"
    /\ todo # <<>>
    /\ Selected(Head(todo))
    /\ disk' = [disk EXCEPT ![Head(todo)] = add_offset_to_numbers(disk[Head(todo)])]
    /\ todo' = Tail(todo)
    /\ UNCHANGED <<disk0, opc>>
    /\ UNCHANGED <<cleanVars, procVars>>

\* lines 30-35, one file that does not get to line 36
MainSkip ==
    /\ opc = "loop"
    /\ todo # <<>>
    /\ ~Selected(Head(todo))
    /\ todo' = Tail(todo)
    /\ UNCHANGED <<disk, disk0, opc>>
    /\ UNCHANGED <<cleanVars, procVars>>

\* the loop of line 30 ends
MainReturn ==
    /\ opc = "loop"
    /\ todo = <<>>
    /\ opc' = "done"
    /\ UNCHANGED <<disk, disk0, todo>>
    /\ UNCHANGED <<cleanVars, procVars>>

NextOffset ==
    \/ MainGlob
    \/ MainRenumber
    \/ MainSkip
    \/ MainReturn

SpecOffset == InitOffset /\ [][NextOffset]_vars

----------------------------------------------------------------------------
(* numbering_script.py, process_files: the regular expressions *)

LitDashes == <<"-","-","-">>
LitMonologue == <<"M","O","N","O","L","O","G","U","E">>
LitScenario == <<"S","C","E","N","A","R","I","O",":">>
LitItem == <<"I","T","E","M">>
LitItems == <<"I","T","E","M","S">>
LitSource == <<"S","o","u","r","c","e",":">>
LitScript == <<"S","c","r","i","p","t",":">>
LitMustBeRead == <<"T","h","i","s"," ","m","u","s","t"," ","b","e"," ","r","e","a","d">>
LitYouArePlaying == <<"Y","o","u"," ","a","r","e"," ","p","l","a","y","i","n","g">>
LitYouAre == <<"Y","o","u"," ","a","r","e">>
LitYouAreCharacter == <<"Y","o","u"," ","a","r","e"," ","C","h","a","r","a","c","t","e","r">>
BREAK == <<"#","#","#","B","R","E","A","K","#","#","#">>
NoMatch == [e |-> 0, num |-> 0, body |-> <<>>]

\* [^\n]* : the position of the next newline at or after p, Len(t) + 1 when none
LineEnd(t, p) == Least({q \in p..Len(t) + 1 : q = Len(t) + 1 \/ t[q] = NL})

\* ^ under re.MULTILINE
AtLineStart(t, p) == p = 1 \/ (p > 1 /\ p <= Len(t) + 1 /\ t[p - 1] = NL)

\* '\r\n' and '\r'
MatchCRLF(t, p) == IF HasAt(t, p, <<"\r", NL>>) THEN p + 2 ELSE 0
MatchCR(t, p) == IF HasAt(t, p, <<"\r">>) THEN p + 1 ELSE 0

\* line 69: content.replace('\r\n', '\n').replace('\r', '\n')
NormalizeNewlines(t) ==
    LET a == ReSub(t, [p \in 1..Len(t) |-> MatchCRLF(t, p)], <<NL>>)
    IN  ReSub(a, [p \in 1..Len(a) |-> MatchCR(a, p)], <<NL>>)

\* ' '.join(x.strip().split())
CollapseWhitespace(t) ==
    strip(ReSub(t, [p \in 1..Len(t) |-> MatchSpaces(t, p)], <<" ">>))

\* r'(\d+)\s+SCENARIO:[^\n]*\n=+\n' at d: the position after it, 0 when it
\* does not match there
ScenarioHead(t, d) ==
    LET e == RunEnd(t, d, Digits)
        s == RunEnd(t, e, Space)
    IN  IF e > d /\ s > e /\ HasAt(t, s, LitScenario)
        THEN LET l == LineEnd(t, s + Len(LitScenario))
                 q == RunEnd(t, l + 1, {"="})
             IN  IF l <= Len(t) /\ q > l + 1 /\ q <= Len(t) /\ t[q] = NL
                 THEN q + 1 ELSE 0
        ELSE 0

\* r'\n\n\d+\s' at e
BlankThenNumber(t, e) ==
    /\ HasAt(t, e, <<NL, NL>>)
    /\ LET d == RunEnd(t, e + 2, Digits)
       IN  d > e + 2 /\ d <= Len(t) /\ t[d] \in Space

\* r'\n={10,}\nITEM' at e
BorderThenItem(t, e) ==
    /\ e <= Len(t) /\ t[e] = NL
    /\ LET r == RunEnd(t, e + 1, {"="})
       IN  r - (e + 1) >= 10 /\ HasAt(t, r, <<NL>> \o LitItem)

\* (?=\n---|\n\n\d+\s|\Z)
Lookahead1(t, e) ==
    \/ e = Len(t) + 1
    \/ HasAt(t, e, <<NL>> \o LitDashes)
    \/ BlankThenNumber(t, e)

\* (?=\n+={10,}\nITEM|\n---|\Z)
Lookahead2(t, e) ==
    \/ e = Len(t) + 1
    \/ HasAt(t, e, <<NL>> \o LitDashes)
    \/ /\ e <= Len(t) /\ t[e] = NL
       /\ BorderThenItem(t, RunEnd(t, e, {NL}) - 1)

\* (?=\n---|\n\n\d+\s|\n={10,}\nITEM|\Z)
Lookahead3(t, e) ==
    \/ Lookahead1(t, e)
    \/ BorderThenItem(t, e)

\* (.*?)(?=...) under re.DOTALL ends at the least position >= b where the
\* lookahead holds: the least position of ahead, the positions where it does
LazyEnd(ahead) == Least(ahead)

\* r'---\s*MONOLOGUE[^\n]*---' followed by r'\s*\n': the position after the
\* closing dashes, which end the header's line but for whitespace; 0: no match
MonologueHeader(t, p) ==
    IF ~HasAt(t, p, LitDashes) THEN 0
    ELSE LET a == RunEnd(t, p + 3, Space)
         IN  IF ~HasAt(t, a, LitMonologue) THEN 0
             ELSE LET m == a + Len(LitMonologue)
                      l == LineEnd(t, m)
                      x == RStripEnd(t, l - 1)
                  IN  IF l <= Len(t) /\ x - 2 >= m /\ HasAt(t, x - 2, LitDashes)
                      THEN x + 1 ELSE 0

\* r'(?:\s*[^\d\n][^\n]*\n)?\s*' after the header: where (\d+) starts.
\* w is the end of the whitespace after the header.  With the optional line
\* (tried first): the line that holds w, when it starts, indentation aside,
\* with a non-digit or is indented, is skipped, and the whitespace after it.
\* The second component is where (\d+) starts without the optional line.
NumberStarts(t, h) ==
    LET w == RunEnd(t, h, Space)
        optional == /\ w <= Len(t)
                    /\ \/ t[w] \notin Digits
                       \/ t[w - 1] \in Space \ {NL}
        l == LineEnd(t, w)
    IN  <<IF optional /\ l <= Len(t) THEN RunEnd(t, l + 1, Space) ELSE 0, w>>

\* monologue_pattern1 at p (line 77)
monologue_pattern1(t, p) ==
    LET h == MonologueHeader(t, p)
    IN  IF h = 0 THEN NoMatch
        ELSE LET ds == NumberStarts(t, h)
                 viaLine == IF ds[1] = 0 THEN 0 ELSE ScenarioHead(t, ds[1])
                 d == IF viaLine # 0 THEN ds[1] ELSE ds[2]
                 b == IF viaLine # 0 THEN viaLine ELSE ScenarioHead(t, ds[2])
             IN  IF b = 0 THEN NoMatch
                 ELSE LET e == LazyEnd({x \in b..Len(t) + 1 : Lookahead1(t, x)})
                      IN  [e |-> e,
                           num |-> int(Slice(t, d, RunEnd(t, d, Digits))),
                           body |-> Slice(t, b, e)]

\* r'={10,}\nITEM\s+(\d+)\s*-\s*MONOLOGUE[^\n]*\nSource:[^\n]*\n={10,}\n' at p:
\* <<the position after it, where (\d+) starts>>, <<0, 0>> when no match
ItemHeader(t, p) ==
    LET q == RunEnd(t, p, {"="})
        a == RunEnd(t, q + 1 + Len(LitItem), Space)
        b == RunEnd(t, a, Digits)
        c == RunEnd(t, b, Space)
        d == RunEnd(t, c + 1, Space)
        l1 == LineEnd(t, d + Len(LitMonologue))
        l2 == LineEnd(t, l1 + 1 + Len(LitSource))
        r == RunEnd(t, l2 + 1, {"="})
    IN  IF /\ q - p >= 10
           /\ HasAt(t, q, <<NL>> \o LitItem)
           /\ a > q + 1 + Len(LitItem)
           /\ b > a
           /\ c <= Len(t) /\ t[c] = "-"
           /\ HasAt(t, d, LitMonologue)
           /\ l1 <= Len(t)
           /\ HasAt(t, l1 + 1, LitSource)
           /\ l2 <= Len(t)
           /\ r - (l2 + 1) >= 10
           /\ r <= Len(t) /\ t[r] = NL
        THEN <<r + 1, a>>
        ELSE <<0, 0>>

\* r'.*?\d+\s+SCENARIO:[^\n]*\n=+\n' from x: the position after the first
\* scenario head at or after x, 0 when there is none
FirstScenarioHead(t, x) ==
    LET heads == {q \in x..Len(t) : ScenarioHead(t, q) # 0}
    IN  IF heads = {} THEN 0 ELSE ScenarioHead(t, Least(heads))

\* monologue_pattern2 at p (line 88)
monologue_pattern2(t, p) ==
    LET hd == ItemHeader(t, p)
    IN  IF hd[1] = 0 THEN NoMatch
        ELSE LET b == FirstScenarioHead(t, hd[1])
             IN  IF b = 0 THEN NoMatch
                 ELSE LET e == LazyEnd({x \in b..Len(t) + 1 : Lookahead2(t, x)})
                      IN  [e |-> e,
                           num |-> int(Slice(t, hd[2], RunEnd(t, hd[2], Digits))),
                           body |-> Slice(t, b, e)]

\* scenario_pattern at p (line 91): (?<!\n) looks at the character before p
scenario_pattern(t, p) ==
    IF p > 1 /\ t[p - 1] = NL THEN NoMatch
    ELSE LET b == ScenarioHead(t, p)
         IN  IF b = 0 THEN NoMatch
             ELSE LET e == LazyEnd({x \in b..Len(t) + 1 : Lookahead3(t, x)})
                  IN  [e |-> e,
                       num |-> int(Slice(t, p, RunEnd(t, p, Digits))),
                       body |-> Slice(t, b, e)]

\* re.finditer(pattern, t, re.DOTALL): the matches from p on, left to right
\* at[q] is the match of the pattern that starts at q
RECURSIVE FindIter(_, _)
FindIter(at, p) ==
    LET starts == {q \in p..Len(at) : at[q].e > q}
    IN  IF starts = {} THEN <<>>
        ELSE LET m == at[Least(starts)]
             IN  <<m>> \o FindIter(at, m.e)

Pattern1End(t, p) == monologue_pattern1(t, p).e
Pattern2End(t, p) == monologue_pattern2(t, p).e
Pattern3End(t, p) == scenario_pattern(t, p).e

\* lines 94-97 and 100-103: every match is appended
EntriesOf(ms) == [k \in 1..Len(ms) |-> <<ms[k].num, CollapseWhitespace(ms[k].body)>>]

Numbers(entries) == {entries[k][1] : k \in 1..Len(entries)}

\* lines 106-110: a match is appended unless its number is in all_entries
RECURSIVE AddFallback(_, _)
AddFallback(entries, ms) ==
    IF ms = <<>> THEN entries
    ELSE AddFallback(
             IF Head(ms).num \notin Numbers(entries)
             THEN Append(entries, <<Head(ms).num, CollapseWhitespace(Head(ms).body)>>)
             ELSE entries,
             Tail(ms))

\* lines 93-110
ExtractedEntries(entries, t) ==
    AddFallback(
        entries
            \o EntriesOf(FindIter([p \in 1..Len(t) |-> monologue_pattern1(t, p)], 1))
            \o EntriesOf(FindIter([p \in 1..Len(t) |-> monologue_pattern2(t, p)], 1)),
        FindIter([p \in 1..Len(t) |-> scenario_pattern(t, p)], 1))

\* lines 113-115
RemoveMonologues(t) ==
    LET a == ReSub(t, [p \in 1..Len(t) |-> Pattern1End(t, p)], <<NL>>)
        b == ReSub(a, [p \in 1..Len(a) |-> Pattern2End(a, p)], <<NL>>)
    IN  ReSub(b, [p \in 1..Len(b) |-> Pattern3End(b, p)], <<NL>>)

----------------------------------------------------------------------------
(* process_files: header and metadata lines (lines 117-132) *)

\* the position after the last '---' that starts in lo..x, 0 when there is none
LastDashes(t, lo, x) ==
    LET found == {q \in lo..x : HasAt(t, q, LitDashes)}
    IN  IF found = {} THEN 0 ELSE Greatest(found) + 3

\* r'---[^\n]*---'
MatchDashedHeader(t, p) ==
    IF ~HasAt(t, p, LitDashes) THEN 0
    ELSE LastDashes(t, p + 3, LineEnd(t, p + 3) - 3)

\* the position of the last newline in a..b-1, 0 when there is none
RECURSIVE LastNewline(_, _, _)
LastNewline(t, a, x) ==
    IF x < a THEN 0 ELSE IF t[x] = NL THEN x ELSE LastNewline(t, a, x - 1)

\* r'^\s*=+\s*$' (MULTILINE): $ stands at the end of the text or before a newline
MatchBorderLine(t, p) ==
    IF ~AtLineStart(t, p) THEN 0
    ELSE LET a == RunEnd(t, p, Space)
             b == RunEnd(t, a, {"="})
             w == RunEnd(t, b, Space)
         IN  IF b = a THEN 0
             ELSE IF w = Len(t) + 1 THEN w
             ELSE LastNewline(t, b, w - 1)

\* r'^\s*' fixed r'[^\n]*$' (MULTILINE) at p, h being the position after the
\* fixed part where it stands after the whitespace, or 0
MatchMetaLine(t, p, h) ==
    IF ~AtLineStart(t, p) THEN 0
    ELSE IF h = 0 THEN 0 ELSE LineEnd(t, h)

\* r'\d+\s+SCENARIO:'
HeadScenario(t, a) ==
    LET e == RunEnd(t, a, Digits)
        x == RunEnd(t, e, Space)
    IN  IF e > a /\ x > e /\ HasAt(t, x, LitScenario) THEN x + Len(LitScenario) ELSE 0

HeadScript(t, a) == IF HasAt(t, a, LitScript) THEN a + Len(LitScript) ELSE 0
HeadSource(t, a) == IF HasAt(t, a, LitSource) THEN a + Len(LitSource) ELSE 0
HeadMustBeRead(t, a) == IF HasAt(t, a, LitMustBeRead) THEN a + Len(LitMustBeRead) ELSE 0
HeadYouArePlaying(t, a) ==
    IF HasAt(t, a, LitYouArePlaying) THEN a + Len(LitYouArePlaying) ELSE 0
HeadYouAreCharacter(t, a) ==
    IF HasAt(t, a, LitYouAreCharacter) THEN a + Len(LitYouAreCharacter) ELSE 0

\* r'Character\s*\d+:'
HeadCharacter(t, a) ==
    IF ~HasAt(t, a, LitCharacter) THEN 0
    ELSE LET x == RunEnd(t, a + Len(LitCharacter), Space)
             d == RunEnd(t, x, Digits)
         IN  IF d > x /\ d <= Len(t) /\ t[d] = ":" THEN d + 1 ELSE 0

\* r'ITEM\s+\d+'
HeadItem(t, a) ==
    IF ~HasAt(t, a, LitItem) THEN 0
    ELSE LET x == RunEnd(t, a + Len(LitItem), Space)
             d == RunEnd(t, x, Digits)
         IN  IF x > a + Len(LitItem) /\ d > x THEN d ELSE 0

\* r'ITEMS\s+\d+-\d+'
HeadItems(t, a) ==
    IF ~HasAt(t, a, LitItems) THEN 0
    ELSE LET x == RunEnd(t, a + Len(LitItems), Space)
             d == RunEnd(t, x, Digits)
             f == RunEnd(t, d + 1, Digits)
         IN  IF x > a + Len(LitItems) /\ d > x /\ d <= Len(t) /\ t[d] = "-"
                /\ f > d + 1
             THEN f ELSE 0

\* r'You are [A-Z];'
HeadYouAreLetter(t, a) ==
    LET x == a + Len(LitYouAre)
    IN  IF HasAt(t, a, LitYouAre) /\ x + 2 <= Len(t) /\ t[x] = " "
           /\ t[x + 1] \in Upper /\ t[x + 2] = ";"
        THEN x + 3 ELSE 0

MatchScenarioLine(t, p) == MatchMetaLine(t, p, HeadScenario(t, RunEnd(t, p, Space)))
MatchScriptLine(t, p) == MatchMetaLine(t, p, HeadScript(t, RunEnd(t, p, Space)))
MatchCharacterLine(t, p) == MatchMetaLine(t, p, HeadCharacter(t, RunEnd(t, p, Space)))
MatchItemLine(t, p) == MatchMetaLine(t, p, HeadItem(t, RunEnd(t, p, Space)))
MatchItemsLine(t, p) == MatchMetaLine(t, p, HeadItems(t, RunEnd(t, p, Space)))
MatchSourceLine(t, p) == MatchMetaLine(t, p, HeadSource(t, RunEnd(t, p, Space)))
MatchMustBeReadLine(t, p) == MatchMetaLine(t, p, HeadMustBeRead(t, RunEnd(t, p, Space)))
MatchYouArePlayingLine(t, p) == MatchMetaLine(t, p, HeadYouArePlaying(t, RunEnd(t, p, Space)))
MatchYouAreLetterLine(t, p) == MatchMetaLine(t, p, HeadYouAreLetter(t, RunEnd(t, p, Space)))
MatchYouAreCharacterLine(t, p) == MatchMetaLine(t, p, HeadYouAreCharacter(t, RunEnd(t, p, Space)))

\* lines 118-121
StripHeaders(t) ==
    LET a == ReSub(t, [p \in 1..Len(t) |-> MatchDashedHeader(t, p)], <<>>)
        b == ReSub(a, [p \in 1..Len(a) |-> MatchBorderLine(a, p)], <<>>)
        c == ReSub(b, [p \in 1..Len(b) |-> MatchScenarioLine(b, p)], <<>>)
    IN  ReSub(c, [p \in 1..Len(c) |-> MatchScriptLine(c, p)], <<>>)

\* lines 123-128
StripSpeakers(t) ==
    LET a == ReSub(t, [p \in 1..Len(t) |-> MatchCharacterLine(t, p)], BREAK)
        b == ReSub(a, [p \in 1..Len(a) |-> MatchItemLine(a, p)], BREAK)
        c == ReSub(b, [p \in 1..Len(b) |-> MatchItemsLine(b, p)], BREAK)
        d == ReSub(c, [p \in 1..Len(c) |-> MatchSourceLine(c, p)], <<>>)
    IN  ReSub(d, [p \in 1..Len(d) |-> MatchMustBeReadLine(d, p)], <<>>)

\* lines 130-132
StripInstructions(t) ==
    LET a == ReSub(t, [p \in 1..Len(t) |-> MatchYouArePlayingLine(t, p)], BREAK)
        b == ReSub(a, [p \in 1..Len(a) |-> MatchYouAreLetterLine(a, p)], BREAK)
    IN  ReSub(b, [p \in 1..Len(b) |-> MatchYouAreCharacterLine(b, p)], BREAK)

\* lines 113-132: content_cleaned
content_cleaned(t) ==
    StripInstructions(StripSpeakers(StripHeaders(RemoveMonologues(t))))

\* str.split('\n')
RECURSIVE split(_)
split(t) ==
    LET l == LineEnd(t, 1)
    IN  IF l > Len(t) THEN <<t>>
        ELSE <<SubSeq(t, 1, l - 1)>> \o split(SubSeq(t, l + 1, Len(t)))

----------------------------------------------------------------------------
(* process_files: numbered lines (lines 134-181) *)

\* re.match(r'^(\d+)\s+(.*)$', line) and re.match(r'^\d+\s+', next_line)
NumMatch(line) ==
    LET d == RunEnd(line, 1, Digits)
    IN  d > 1 /\ RunEnd(line, d, Space) > d

\* int(num_match.group(1))
NumOf(line) == int(Slice(line, 1, RunEnd(line, 1, Digits)))

\* num_match.group(2)
RestOf(line) ==
    Slice(line, RunEnd(line, RunEnd(line, 1, Digits), Space), Len(line) + 1)

StartsWith(t, lit) == HasAt(t, 1, lit)

\* The stop test of lines 162-171 without the test for a numbered line.
StopsAtMarkers(next_line) ==
    LET next_stripped == strip(next_line)
    IN  \/ StartsWith(next_line, LitDashes)
        \/ StartsWith(next_stripped, <<"=","=","=">>)
        \/ StartsWith(next_stripped, LitItem \o <<" ">>)
        \/ StartsWith(next_stripped, LitItems \o <<" ">>)
        \/ StartsWith(next_stripped, LitSource)
        \/ StartsWith(next_stripped, LitScript)
        \/ StartsWith(next_stripped, LitCharacter \o <<" ">>)
        \/ StartsWith(next_stripped, LitMustBeRead)
        \/ StartsWith(next_stripped, LitYouAre)

\* lines 162-171
StopsHere(next_line) ==
    LET next_stripped == strip(next_line)
    IN  \/ NumMatch(next_line)
        \/ StartsWith(next_line, LitDashes)
        \/ StartsWith(next_stripped, <<"=","=","=">>)
        \/ StartsWith(next_stripped, LitItem \o <<" ">>)
        \/ StartsWith(next_stripped, LitItems \o <<" ">>)
        \/ StartsWith(next_stripped, LitSource)
        \/ StartsWith(next_stripped, LitScript)
        \/ StartsWith(next_stripped, LitCharacter \o <<" ">>)
        \/ StartsWith(next_stripped, LitMustBeRead)
        \/ StartsWith(next_stripped, LitYouAre)

\* ' '.join(text_parts)
RECURSIVE JoinWith(_, _)
JoinWith(parts, sep) ==
    IF parts = <<>> THEN <<>>
    ELSE IF Len(parts) = 1 THEN parts[1]
    ELSE parts[1] \o sep \o JoinWith(Tail(parts), sep)

\* lines 177-179: the entry is appended when its text is not blank
WithEntry(entries, num, parts) ==
    LET full_text == JoinWith(parts, <<" ">>)
    IN  IF strip(full_text) # <<>> THEN Append(entries, <<num, full_text>>)
        ELSE entries

----------------------------------------------------------------------------
(* process_files: sorting, deduplication and output (lines 183-201) *)

\* The entries left in the order of appending: line 184 left out.
Unsorted(entries) == entries

\* list.sort(key=lambda x: x[0]): stable, by number
RECURSIVE InsertByNumber(_, _)
InsertByNumber(sortedEntries, entry) ==
    IF sortedEntries = <<>> THEN <<entry>>
    ELSE IF sortedEntries[Len(sortedEntries)][1] <= entry[1]
         THEN Append(sortedEntries, entry)
    ELSE Append(InsertByNumber(SubSeq(sortedEntries, 1, Len(sortedEntries) - 1), entry),
                sortedEntries[Len(sortedEntries)])

RECURSIVE SortByNumber(_)
SortByNumber(entries) ==
    IF entries = <<>> THEN <<>>
    ELSE InsertByNumber(SortByNumber(SubSeq(entries, 1, Len(entries) - 1)),
                        entries[Len(entries)])

\* A deduplication that keeps the last entry of each number, not the first.
KeepLast(entries, seen) ==
    LET kept == {j \in 1..Len(entries) :
                    /\ entries[j][1] \notin seen
                    /\ \A k \in j + 1..Len(entries) : entries[k][1] # entries[j][1]}
        upTo[j \in 0..Len(entries)] ==
            IF j = 0 THEN <<>>
            ELSE IF j \in kept THEN Append(upTo[j - 1], entries[j])
            ELSE upTo[j - 1]
    IN  upTo[Len(entries)]

\* lines 185-190
RECURSIVE Dedup(_, _)
Dedup(entries, seen) ==
    IF entries = <<>> THEN <<>>
    ELSE IF Head(entries)[1] \notin seen
         THEN <<Head(entries)>> \o Dedup(Tail(entries), seen \cup {Head(entries)[1]})
    ELSE Dedup(Tail(entries), seen)

\* A formatting without the test of line 196: every entry gets a line.
FormatEvery(entries) ==
    [k \in 1..Len(entries) |->
        str(entries[k][1]) \o <<" ", " ">> \o clean_text(entries[k][2])]

\* lines 193-197
RECURSIVE FormatLines(_)
FormatLines(entries) ==
    IF entries = <<>> THEN <<>>
    ELSE LET cleaned == clean_text(Head(entries)[2])
         IN  (IF cleaned # <<>>
              THEN <<str(Head(entries)[1]) \o <<" ", " ">> \o cleaned>>
              ELSE <<>>) \o FormatLines(Tail(entries))

----------------------------------------------------------------------------
(* process_files as a step machine *)

MaxBlocks == 3
MaxLaterBlocks == 2

\* The pieces the file contents are put together from: numbered lines and
\* the lines that follow them,
LineFrags ==
    { <<"7"," ","H","i","\n">>,
      <<"1","2"," ","\n">>,
      <<" ","m","o","r","e","\n">>,
      <<"\n">>,
      <<"C","h","a","r","a","c","t","e","r"," ","1",":"," ","x","\n">>,
      <<"Y","o","u"," ","a","r","e"," ","l","a","t","e","\n">>,
      <<"9"," ","e","n","d">> }

\* lines with equal numbers, role labels and texts that clean to nothing,
EntryFrags ==
    { <<"7"," ","H","i","\n">>,
      <<"7"," ","N","a","r","r","a","t","o","r",":","\n">>,
      <<"0","0","7"," ","y","o"," "," ","[","s","a","d","]","\n">>,
      <<"1","2"," ","N","a","r","r","a","t","o","r",":"," ","W","e","l","c","o","m","e"," ","t","o"," ","t","h","e"," ","s","h","o","w"," ","[","a","p","o","l","o","g","e","t","i","c","a","l","l","y","]","\r","\n">>,
      <<"N","a","r","r","a","t","o","r",":"," ","1","2"," ","W","e","l","c","o","m","e"," ","t","o"," ","t","h","e"," ","s","h","o","w"," ","[","a","p","o","l","o","g","e","t","i","c","a","l","l","y","]","\n">>,
      <<"3"," ","I","T","E","M"," ","x","\n">>,
      <<"-","-","-"," ","M","O","N","O","L","O","G","U","E"," ","-","-","-","\n","7"," ","S","C","E","N","A","R","I","O",":"," ","i","\n","=","=","=","=","\n","H","e","l","l","o"," ","t","h","e","r","e",".","\n">> }

\* and monologue and scenario blocks.
ScenarioFrags ==
    { <<"-","-","-"," ","M","O","N","O","L","O","G","U","E"," ","-","-","-","\n">>,
      <<"1","7"," ","S","C","E","N","A","R","I","O",":"," ","i","n","t","r","o","\n","=","=","=","=","=","\n","H","e","l","l","o"," ","t","h","e","r","e",".","\n","I"," ","a","m"," ","f","i","n","e",".","\n">>,
      <<"7"," ","S","C","E","N","A","R","I","O",":"," ","i","n","t","r","o","\n","=","=","=","=","=","\n","H","e","l","l","o"," ","t","h","e","r","e",".","\n","I"," ","a","m"," ","f","i","n","e",".","\n">>,
      <<"\n">>,
      <<"=","=","=","=","=","=","=","=","=","=","=","=","\n","I","T","E","M"," ","1","7"," ","-"," ","M","O","N","O","L","O","G","U","E","\n","S","o","u","r","c","e",":"," ","x","\n","=","=","=","=","=","=","=","=","=","=","=","=","\n">>,
      <<"7"," ","H","i","\n">>,
      <<"T","h","i","s"," ","m","u","s","t"," ","b","e"," ","r","e","a","d","\n">> }

FileContents ==
    TextsOf(LineFrags, MaxBlocks) \cup TextsOf(EntryFrags, MaxBlocks)
        \cup TextsOf(ScenarioFrags, MaxBlocks)

\* The files that come after another file.
LaterContents ==
    TextsOf(LineFrags, MaxLaterBlocks) \cup TextsOf(EntryFrags, MaxLaterBlocks)
        \cup TextsOf(ScenarioFrags, MaxLaterBlocks)

\* The files that come before another file.
EarlierFiles ==
    { <<"7"," ","N","a","r","r","a","t","o","r",":","\n">>,
      <<"1","7"," ","o","l","d","\n","3"," ","x","\n">> }

Init ==
    /\ \/ \E c \in FileContents : input_files = <<c>>
       \/ \E e \in EarlierFiles : \E c \in LaterContents : input_files = <<e, c>>
    /\ files = input_files
    /\ content = <<>>
    /\ all_entries = <<>>
    /\ lines = <<>>
    /\ i = 0
    /\ line_num = 0
    /\ text_parts = <<>>
    /\ unique_entries = <<>>
    /\ output_lines = <<>>
    /\ output = <<>>
    /\ ppc = "files"
    /\ CleanIdle
    /\ OffsetIdle

\* lines 60-69: the next file is read and its line endings normalized
ReadFile ==
    /\ ppc = "files"
    /\ files # <<>>
    /\ content' = NormalizeNewlines(Head(files))
    /\ files' = Tail(files)
    /\ ppc' = "extract"
    /\ UNCHANGED <<input_files, all_entries, lines, i, line_num, text_parts,
                   unique_entries, output_lines, output>>
    /\ UNCHANGED <<cleanVars, offsetVars>>

\* lines 93-110
ExtractMonologues ==
    /\ ppc = "extract"
    /\ all_entries' = ExtractedEntries(all_entries, content)
    /\ ppc' = "strip"
    /\ UNCHANGED <<input_files, files, content, lines, i, line_num, text_parts, unique_entries,
                   output_lines, output>>
    /\ UNCHANGED <<cleanVars, offsetVars>>

\* lines 112-136
StripContent ==
    /\ ppc = "strip"
    /\ lines' = split(content_cleaned(content))
    /\ i' = 1
    /\ ppc' = "scan"
    /\ UNCHANGED <<input_files, files, content, all_entries, line_num, text_parts,
                   unique_entries, output_lines, output>>
    /\ UNCHANGED <<cleanVars, offsetVars>>

\* lines 137-146: the line opens an entry
ScanOpen ==
    /\ ppc = "scan"
    /\ i <= Len(lines)
    /\ NumMatch(lines[i])
    /\ line_num' = NumOf(lines[i])
    /\ text_parts' = <<RestOf(lines[i])>>
    /\ i' = i + 1
    /\ ppc' = "gather"
    /\ UNCHANGED <<input_files, files, content, all_entries, lines, unique_entries,
                   output_lines, output>>
    /\ UNCHANGED <<cleanVars, offsetVars>>

\* lines 137-141 and 180-181: the line opens nothing
ScanSkip ==
    /\ ppc = "scan"
    /\ i <= Len(lines)
    /\ ~NumMatch(lines[i])
    /\ i' = i + 1
    /\ UNCHANGED <<input_files, files, content, all_entries, lines, line_num, text_parts,
                   unique_entries, output_lines, output, ppc>>
    /\ UNCHANGED <<cleanVars, offsetVars>>

\* lines 151-159 and 177-179: a break marker or an empty line ends the entry
\* and is passed
GatherConsume ==
    /\ ppc = "gather"
    /\ i <= Len(lines)
    /\ strip(lines[i]) = BREAK \/ strip(lines[i]) = <<>>
    /\ i' = i + 1
    /\ all_entries' = WithEntry(all_entries, line_num, text_parts)
    /\ ppc' = "scan"
    /\ UNCHANGED <<input_files, files, content, lines, line_num, text_parts, unique_entries,
                   output_lines, output>>
    /\ UNCHANGED <<cleanVars, offsetVars>>

\* lines 161-172 and 177-179: a numbered line or a section marker ends the
\* entry and stays the next line to look at
GatherStop ==
    /\ ppc = "gather"
    /\ i <= Len(lines)
    /\ ~(strip(lines[i]) = BREAK \/ strip(lines[i]) = <<>>)
    /\ StopsHere(lines[i])
    /\ all_entries' = WithEntry(all_entries, line_num, text_parts)
    /\ ppc' = "scan"
    /\ UNCHANGED <<input_files, files, content, lines, i, line_num, text_parts, unique_entries,
                   output_lines, output>>
    /\ UNCHANGED <<cleanVars, offsetVars>>

\* lines 174-175: the line continues the entry
GatherAppend ==
    /\ ppc = "gather"
    /\ i <= Len(lines)
    /\ ~(strip(lines[i]) = BREAK \/ strip(lines[i]) = <<>>)
    /\ ~StopsHere(lines[i])
    /\ text_parts' = Append(text_parts, strip(lines[i]))
    /\ i' = i + 1
    /\ UNCHANGED <<input_files, files, content, all_entries, lines, line_num, unique_entries,
                   output_lines, output, ppc>>
    /\ UNCHANGED <<cleanVars, offsetVars>>

\* lines 147 and 177-179: the lines ran out while gathering
GatherEnd ==
    /\ ppc = "gather"
    /\ i > Len(lines)
    /\ all_entries' = WithEntry(all_entries, line_num, text_parts)
    /\ ppc' = "scan"
    /\ UNCHANGED <<input_files, files, content, lines, i, line_num, text_parts, unique_entries,
                   output_lines, output>>
    /\ UNCHANGED <<cleanVars, offsetVars>>

\* line 137: the lines of this file ran out; line 60: on to the next file
FileDone ==
    /\ ppc = "scan"
    /\ i > Len(lines)
    /\ ppc' = "files"
    /\ UNCHANGED <<input_files, files, content, all_entries, lines, i, line_num, text_parts,
                   unique_entries, output_lines, output>>
    /\ UNCHANGED <<cleanVars, offsetVars>>

\* lines 183-190, after the last file
SortAndDedup ==
    /\ ppc = "files"
    /\ files = <<>>
    /\ unique_entries' = Dedup(SortByNumber(all_entries), {})
    /\ ppc' = "format"
    /\ UNCHANGED <<input_files, files, content, all_entries, lines, i, line_num, text_parts,
                   output_lines, output>>
    /\ UNCHANGED <<cleanVars, offsetVars>>

\* lines 192-197
CleanAndFormat ==
    /\ ppc = "format"
    /\ output_lines' = FormatLines(unique_entries)
    /\ ppc' = "write"
    /\ UNCHANGED <<input_files, files, content, all_entries, lines, i, line_num, text_parts,
                   unique_entries, output>>
    /\ UNCHANGED <<cleanVars, offsetVars>>

\* lines 199-201
WriteOutput ==
    /\ ppc = "write"
    /\ output' = JoinWith(output_lines, <<NL>>)
    /\ ppc' = "done"
    /\ UNCHANGED <<input_files, files, content, all_entries, lines, i, line_num, text_parts,
                   unique_entries, output_lines>>
    /\ UNCHANGED <<cleanVars, offsetVars>>

Next ==
    \/ ReadFile
    \/ ExtractMonologues
    \/ StripContent
    \/ ScanOpen
    \/ ScanSkip
    \/ GatherConsume
    \/ GatherStop
    \/ GatherAppend
    \/ GatherEnd
    \/ FileDone
    \/ SortAndDedup
    \/ CleanAndFormat
    \/ WriteOutput

Spec == Init /\ [][Next]_vars

----------------------------------------------------------------------------
(* process_files: the output file *)

\* The lines of the output file.
OutputFileLines == IF output = <<>> THEN <<>> ELSE split(output)

\* The number an output line begins with and the text after the separator.
OutputNumber(l) == int(Slice(l, 1, RunEnd(l, 1, Digits)))
OutputText(l) == Slice(l, RunEnd(l, 1, Digits) + 2, Len(l) + 1)

\* The output lines that carry the number n.
LinesNumbered(n) ==
    {j \in 1..Len(OutputFileLines) :
        /\ RunEnd(OutputFileLines[j], 1, Digits) > 1
        /\ OutputNumber(OutputFileLines[j]) = n}

\* The collected entries with the number n, by their place in the order of
\* appending, and the first of them.
EntriesNumbered(n) == {j \in 1..Len(all_entries) : all_entries[j][1] = n}
FirstAppended(n) == all_entries[Least(EntriesNumbered(n))]

\* The numbers that two or more collected entries share.
SharedNumbers ==
    {n \in {all_entries[j][1] : j \in 1..Len(all_entries)} :
        Cardinality(EntriesNumbered(n)) >= 2}

\* C1: the numbers of the lines of the output file are strictly increasing
\* from the first line to the last, so that no number appears twice.
C1_NumbersStrictlyIncreasing ==
    ppc = "done" =>
        \A j \in 1..Len(OutputFileLines) :
            /\ RunEnd(OutputFileLines[j], 1, Digits) > 1
            /\ j > 1 => OutputNumber(OutputFileLines[j - 1])
                            < OutputNumber(OutputFileLines[j])

\* Entries were collected out of order and with a number repeated, and two
\* or more lines were written.
C1_Witness ==
    /\ ppc = "done"
    /\ Len(OutputFileLines) >= 2
    /\ SharedNumbers # {}
    /\ \E j \in 1..Len(all_entries) : \E k \in j + 1..Len(all_entries) :
           all_entries[j][1] > all_entries[k][1]

\* C2 as stated: a number that two or more collected entries share has
\* exactly one line in the output file, with the cleaned text of the entry
\* appended first.
C2_ExactlyOneLine ==
    ppc = "done" =>
        \A n \in SharedNumbers :
            /\ Cardinality(LinesNumbered(n)) = 1
            /\ \A j \in LinesNumbered(n) :
                   OutputText(OutputFileLines[j]) = clean_text(FirstAppended(n)[2])

\* C2: a number that two or more collected entries share has at most one
\* line in the output file; it has one exactly when the text of the entry
\* appended first does not clean to the empty text, and that line then
\* carries this cleaned text.
C2_FirstAppendedKept ==
    ppc = "done" =>
        \A n \in SharedNumbers :
            LET cleaned == clean_text(FirstAppended(n)[2])
            IN  /\ Cardinality(LinesNumbered(n)) = (IF cleaned = <<>> THEN 0 ELSE 1)
                /\ \A j \in LinesNumbered(n) :
                       OutputText(OutputFileLines[j]) = cleaned

\* Two entries share a number, their texts clean to different non-empty
\* texts, and the line written carries the text of the one appended first.
C2_Witness ==
    /\ ppc = "done"
    /\ \E n \in SharedNumbers :
           /\ clean_text(FirstAppended(n)[2]) # <<>>
           /\ \E k \in EntriesNumbered(n) :
                  /\ clean_text(all_entries[k][2]) # <<>>
                  /\ clean_text(all_entries[k][2]) # clean_text(FirstAppended(n)[2])
           /\ \E j \in LinesNumbered(n) :
                  OutputText(OutputFileLines[j]) = clean_text(FirstAppended(n)[2])

\* <integer>, two spaces, and a text that is not empty, holds no newline and
\* no two whitespace characters in a row, and neither begins nor ends with a
\* whitespace character.
WellFormedLine(l) ==
    LET d == RunEnd(l, 1, Digits)
    IN  /\ d > 1
        /\ Len(l) >= d + 2
        /\ l[d] = " " /\ l[d + 1] = " "
        /\ l[d + 2] \notin Space
        /\ l[Len(l)] \notin Space
        /\ \A k \in d + 2..Len(l) : l[k] # NL
        /\ \A k \in d + 2..Len(l) - 1 : ~(l[k] \in Space /\ l[k + 1] \in Space)

\* C3: every line of the output file has the form <integer>, two spaces,
\* <non-empty text>, the text free of newlines, of runs of whitespace and of
\* whitespace at its ends; an entry whose cleaned text is empty has no line.
C3_LineFormat ==
    ppc = "done" =>
        /\ \A j \in 1..Len(OutputFileLines) : WellFormedLine(OutputFileLines[j])
        /\ \A k \in 1..Len(unique_entries) :
               clean_text(unique_entries[k][2]) = <<>>
                   => LinesNumbered(unique_entries[k][1]) = {}
        /\ Len(OutputFileLines)
               = Cardinality({k \in 1..Len(unique_entries) :
                                 clean_text(unique_entries[k][2]) # <<>>})

\* A line was written for an entry whose text held two spaces in a row, and
\* none for an entry whose text cleans to the empty text.
C3_Witness ==
    /\ ppc = "done"
    /\ \E k \in 1..Len(unique_entries) : clean_text(unique_entries[k][2]) = <<>>
    /\ \E k \in 1..Len(unique_entries) :
           /\ Occurs(unique_entries[k][2], <<" ", " ">>)
           /\ LinesNumbered(unique_entries[k][1]) # {}

\* The lines of an input file, its line endings unified.
InputLines(c) == split(NormalizeNewlines(c))

\* The line of Example 2, the same line with the number before the role
\* label, and the output line expected for it.
RoleFirstLine == <<"N","a","r","r","a","t","o","r",":"," ","1","2"," ","W","e","l","c","o","m","e"," ","t","o"," ","t","h","e"," ","s","h","o","w"," ","[","a","p","o","l","o","g","e","t","i","c","a","l","l","y","]">>
NumberFirstLine == <<"1","2"," ","N","a","r","r","a","t","o","r",":"," ","W","e","l","c","o","m","e"," ","t","o"," ","t","h","e"," ","s","h","o","w"," ","[","a","p","o","l","o","g","e","t","i","c","a","l","l","y","]">>
Example2Line == <<"1","2"," "," ","W","e","l","c","o","m","e"," ","t","o"," ","t","h","e"," ","s","h","o","w"," ","[","a","p","o","l","o","g","e","t","i","c","a","l","l","y","]">>

\* The line begins with <integer><whitespace>, and with the integer n.
BeginsNumbered(l) ==
    RunEnd(l, 1, Digits) > 1
        /\ RunEnd(l, RunEnd(l, 1, Digits), Space) > RunEnd(l, 1, Digits)
BeginsWithNumber(l, n) == BeginsNumbered(l) /\ OutputNumber(l) = n

\* No input file holds a scenario block, and the first input line that
\* begins with the number n is the line l, directly followed by a blank
\* line, by a numbered line or by the end of the file.
FirstLineFor(n, l) ==
    /\ \A f \in 1..Len(input_files) : ~Occurs(input_files[f], LitScenario)
    /\ \E f \in 1..Len(input_files) :
           LET ls == InputLines(input_files[f])
           IN  \E k \in 1..Len(ls) :
                   /\ ls[k] = l
                   /\ k + 1 > Len(ls) \/ strip(ls[k + 1]) = <<>> \/ BeginsNumbered(ls[k + 1])
                   /\ \A k2 \in 1..k - 1 : ~BeginsWithNumber(ls[k2], n)
                   /\ \A f2 \in 1..f - 1 :
                          \A k2 \in 1..Len(InputLines(input_files[f2])) :
                              ~BeginsWithNumber(InputLines(input_files[f2])[k2], n)

\* Some input line is the line l.
HoldsLine(l) ==
    \E f \in 1..Len(input_files) :
        \E k \in 1..Len(InputLines(input_files[f])) :
            InputLines(input_files[f])[k] = l

----------------------------------------------------------------------------
(* process_files: the collector of numbered lines *)

\* The kinds of stripped lines the collector tells apart.
NumberedLine(l) ==
    \E k \in 1..Len(l) - 1 :
        /\ \A j \in 1..k : l[j] \in Digits
        /\ l[k + 1] \in Space
BreakMarkerLine(l) == strip(l) = BREAK
BlankLine(l) == \A k \in 1..Len(l) : l[k] \in Space
SectionHeaderLine(l) ==
    \/ HasAt(l, 1, <<"-", "-", "-">>)
    \/ \E lit \in {<<"=", "=", "=">>, <<"I", "T", "E", "M", " ">>,
                   <<"I", "T", "E", "M", "S", " ">>, LitSource, LitScript,
                   LitMustBeRead} : HasAt(strip(l), 1, lit)
SpeakerLine(l) == HasAt(strip(l), 1, LitCharacter \o <<" ">>)
InstructionLine(l) == HasAt(strip(l), 1, LitYouAre)

\* The entry being assembled is closed: it is appended to the collection
\* unless its assembled text is blank.
EntryClosed ==
    LET assembled == JoinWith(text_parts, <<" ">>)
    IN  all_entries' = IF BlankLine(assembled) THEN all_entries
                       ELSE Append(all_entries, <<line_num, assembled>>)

\* One step of the collector over the stripped lines.
CollectorStep ==
    /\ (ppc = "scan" /\ i <= Len(lines) /\ NumberedLine(lines[i]))
           => /\ ppc' = "gather"
              /\ i' = i + 1
              /\ line_num' = OutputNumber(lines[i])
              /\ Len(text_parts') = 1
              /\ \E w \in 1..Len(lines[i]) :
                     /\ \A k \in RunEnd(lines[i], 1, Digits)..w : lines[i][k] \in Space
                     /\ w = Len(lines[i]) \/ lines[i][w + 1] \notin Space
                     /\ text_parts'[1] = SubSeq(lines[i], w + 1, Len(lines[i]))
              /\ all_entries' = all_entries
    /\ (ppc = "scan" /\ i <= Len(lines) /\ ~NumberedLine(lines[i]))
           => /\ ppc' = "scan"
              /\ i' = i + 1
              /\ all_entries' = all_entries
    /\ (ppc = "gather" /\ i <= Len(lines))
           => IF BreakMarkerLine(lines[i]) \/ BlankLine(lines[i])
              THEN ppc' = "scan" /\ i' = i + 1 /\ EntryClosed
              ELSE IF \/ NumberedLine(lines[i])
                      \/ SectionHeaderLine(lines[i])
                      \/ SpeakerLine(lines[i])
                      \/ InstructionLine(lines[i])
              THEN ppc' = "scan" /\ i' = i /\ lines' = lines /\ EntryClosed
              ELSE /\ ppc' = "gather"
                   /\ i' = i + 1
                   /\ line_num' = line_num
                   /\ text_parts' = Append(text_parts, strip(lines[i]))
                   /\ all_entries' = all_entries
    /\ (ppc = "gather" /\ i > Len(lines))
           => ppc' = "scan" /\ EntryClosed
    /\ (ppc \in {"scan", "gather"} /\ ppc' \in {"scan", "gather"})
           => lines' = lines

\* C9: over the stripped lines, a line <integer><whitespace><rest> opens an
\* entry with the text <rest>; the lines after it are appended, trimmed and
\* joined by one space, until a break marker or a blank line, which is
\* passed, or a numbered line, section header, speaker line or instruction
\* line, which stays the next line to look at; a numbered line is never
\* appended, a line met while no entry is open is attached to none, and an
\* entry whose assembled text is blank is dropped.
C9_CollectorStateMachine == [][CollectorStep]_vars

\* An entry with a continuation line was closed by a numbered line, which
\* is the next line to look at.
C9_Witness ==
    /\ ppc = "scan"
    /\ i <= Len(lines)
    /\ NumberedLine(lines[i])
    /\ Len(text_parts) >= 2
    /\ Len(all_entries) >= 1
    /\ all_entries[Len(all_entries)] = <<line_num, JoinWith(text_parts, <<" ">>)>>

----------------------------------------------------------------------------
(* process_files: the fallback scenario pattern *)

\* A scenario block '<N> SCENARIO: ...', a border line of '=' and a body
\* stands at p, where the complete integer N begins.
StandaloneBlockAt(t, p) ==
    /\ t[p] \in Digits
    /\ p = 1 \/ t[p - 1] \notin Digits
    /\ ScenarioHead(t, p) # 0
    /\ ScenarioHead(t, p) <= Len(t)

\* Neither structural monologue pattern matches anywhere in t.
NoStructuralMatch(t) ==
    /\ \A p \in 1..Len(t) : monologue_pattern1(t, p) = NoMatch
    /\ \A p \in 1..Len(t) : monologue_pattern2(t, p) = NoMatch

\* C10: after the extraction, every standalone scenario block that neither
\* structural pattern matched has an entry under the complete integer N
\* written before 'SCENARIO:', added by the fallback or present before it.
C10_CompleteNumber ==
    (ppc = "strip" /\ NoStructuralMatch(content)) =>
        \A p \in 1..Len(content) :
            StandaloneBlockAt(content, p) =>
                \E k \in 1..Len(all_entries) :
                    all_entries[k][1]
                        = int(Slice(content, p, RunEnd(content, p, Digits)))

----------------------------------------------------------------------------
(* tori_2_chris.py: what a run leaves on the disk *)

\* The file name ends in a number that is START_FILE or more.
SuffixFromStart(path) ==
    LET stem == SubSeq(path, Len(LitActor) + 1, Len(path) - Len(LitTxt))
    IN  /\ stem # <<>>
        /\ \A k \in 1..Len(stem) : stem[k] \in Digits
        /\ int(stem) >= START_FILE

\* A line that begins with <digits><whitespace>, the whitespace being a
\* character of the line or the newline that ends it, with OFFSET added to
\* the digits; any other line as it is.
RenumberedLine(l, ended) ==
    LET d == RunEnd(l, 1, Digits)
    IN  IF d > 1 /\ (IF d <= Len(l) THEN l[d] \in Space ELSE ended)
        THEN str(int(SubSeq(l, 1, d - 1)) + OFFSET) \o SubSeq(l, d, Len(l))
        ELSE l

\* The text c renumbered line by line.
RenumberedText(c) ==
    LET ls == split(c)
    IN  JoinWith([k \in 1..Len(ls) |-> RenumberedLine(ls[k], k < Len(ls))], <<NL>>)

\* C7: after the run, a file whose name ends in a number that is START_FILE
\* or more holds its old text with OFFSET (612) added to the digits of every
\* line that begins with <digits><whitespace>, the whitespace character,
\* the rest of the line and every other line being as before; any other
\* file holds its old text.
C7_OffsetRenumbering ==
    opc = "done" =>
        \A path \in DOMAIN disk :
            disk[path] = IF SuffixFromStart(path) THEN RenumberedText(disk0[path])
                         ELSE disk0[path]

\* A renumbered file with a line that was rewritten and a line that was
\* not, beside a file below START_FILE that holds a numbered line.
C7_Witness ==
    /\ opc = "done"
    /\ \E path \in DOMAIN disk :
           /\ SuffixFromStart(path)
           /\ disk[path] # disk0[path]
           /\ \E k \in 1..Len(split(disk0[path])) :
                  /\ split(disk0[path])[k] # <<>>
                  /\ split(disk0[path])[k] = split(disk[path])[k]
    /\ \E path \in DOMAIN disk :
           /\ ~SuffixFromStart(path)
           /\ RenumberedText(disk0[path]) # disk0[path]
           /\ disk[path] = disk0[path]

====
